---- MODULE Spec2Model ----
(***************************************************************************)
(* Task store of task_manager_backend (src/lib.rs): a map from u64 id to   *)
(* Task plus a next-id counter, driven by one canister call at a time.     *)
(* Every action below is one entry point, executed atomically (the IC      *)
(* runs one message to completion before the next).                        *)
(***************************************************************************)
EXTENDS Integers, Sequences, FiniteSets, TLC

VARIABLES
    tasks,      \* TASKS: HashMap<u64, Task>, a function from its keys to records
    next_id,    \* NEXT_ID: Cell<u64>
    time,       \* the host clock read by ic_cdk::api::time()
    last,       \* the last call: [op, id, given, res, arg]: its name, its id argument
                \* (NoId if none), how many of its Option arguments were Some, the value
                \* returned, and a filtered query's argument
    returned,   \* history: the ids returned by successful create_task calls, in order
    deleted,    \* history: the ids removed by delete_task
    swept,      \* history: the ids removed by clear_completed_tasks
    steps,      \* history: the number of host events (calls and clock ticks) so far
    limit,      \* the number of host events the run is explored for
    track,      \* whether the run keeps the two history variables below
    snap,       \* history (if track): the task mapping before the last host event
    prior,      \* history (if track): the last call before the last host event, as
                \* [call, before, at]: its `last` record, the task mapping before it
                \* and the time it was made at
    modulus     \* the number of values of the counter NEXT_ID: 2^w for a w-bit counter

vars == <<tasks, next_id, time, last, returned, deleted, swept, steps, limit,
          track, snap, prior, modulus>>

\* ---- bounds of the model ----
MaxCreates == 2     \* create_task is explored while next_id < MaxCreates
MaxTime == 2        \* the clock is explored over 0..MaxTime
MaxSteps == 4       \* runs of up to MaxSteps host events (calls, clock ticks) are explored
MaxShortSteps == 3  \* the same for SpecShort, used for the properties that range over all arguments
MaxPairSteps == 5   \* the same for SpecPair, which keeps the history of the previous call
IdBits == 1         \* the width of NEXT_ID in SpecWrap, whose runs overflow the counter
MaxWrapSteps == 4   \* runs of up to MaxWrapSteps host events are explored in SpecWrap

\* ---- inputs ----
Strings == {"", "a"}                 \* String arguments: the empty one and a non-empty one
Ids == 0..MaxCreates                 \* id arguments: every id ever allocated and one never allocated

NoId == -1                           \* last.id of a call that takes no id

\* Option<T>: None is <<>>, Some(v) is <<v>>
None == <<>>
Some(v) == <<v>>
IsSome(o) == Len(o) = 1
Unwrap(o) == o[1]
unwrap_or(o, d) == IF IsSome(o) THEN o[1] ELSE d
Option(S) == {None} \cup {Some(v) : v \in S}
OptString == Option(Strings)         \* Option<String> arguments
OptBool == Option(BOOLEAN)           \* Option<bool> arguments
Supplied(o) == IF IsSome(o) THEN 1 ELSE 0

\* Result<T, String>
Ok(v) == [ok |-> TRUE, val |-> v]
Err(e) == [ok |-> FALSE, val |-> e]

\* Mutant: the NotFound and InvalidInput messages swapped.
TaskErrorToString_swapped(error) ==
    CASE error = "NotFound" -> "Invalid input"
      [] error = "InvalidInput" -> "Task not found"
      [] error = "DuplicateTask" -> "Duplicate task"

\* impl From<TaskError> for String
TaskErrorToString(error) ==
    CASE error = "NotFound" -> "Task not found"
      [] error = "InvalidInput" -> "Invalid input"
      [] error = "DuplicateTask" -> "Duplicate task"

is_empty(s) == s = ""

\* struct Task
Task(id, title, description, done, is_important, created_at, updated_at) ==
    [id |-> id, title |-> title, description |-> description, done |-> done,
     is_important |-> is_important, created_at |-> created_at, updated_at |-> updated_at]

\* HashMap operations on a function
contains_key(m, k) == k \in DOMAIN m
insert(m, k, v) == [x \in DOMAIN m \cup {k} |-> IF x = k THEN v ELSE m[x]]
remove_nothing(m, k) == m       \* mutant: the entry is looked up but not removed
remove(m, k) == [x \in DOMAIN m \ {k} |-> m[x]]
values(m) == {m[k] : k \in DOMAIN m}

EmptyMap == [x \in {} |-> 0]

Call(op, id, given, res) ==
    [op |-> op, id |-> id, given |-> given, res |-> res, arg |-> None]

\* A call of a filtered query, which takes no id: arg is its argument, None
\* when it takes none.
Asked(op, arg, res) == [Call(op, NoId, 0, res) EXCEPT !.arg = arg]

NoCall == Call("init", NoId, 0, Ok(TRUE))

\* The counter of SpecWrap has IdBits bits. Elsewhere it is wide enough not to
\* overflow within MaxCreates creates, as a u64 is in any run that can be made.
NarrowModulus == 2 ^ IdBits
WideModulus == 2 ^ (IdBits + MaxCreates)

StartAt(n, tracking, m) ==
    /\ modulus = m
    /\ tasks = EmptyMap
    /\ next_id = 0
    /\ time = 0
    /\ last = NoCall
    /\ returned = <<>>
    /\ deleted = {}
    /\ swept = {}
    /\ steps = 0
    /\ limit = n
    /\ track = tracking
    /\ snap = EmptyMap
    /\ prior = [call |-> NoCall, before |-> EmptyMap, at |-> 0]

StartWith(n, tracking) == StartAt(n, tracking, WideModulus)

Start(n) == StartWith(n, FALSE)

Init == Start(MaxSteps)

\* One more host event (a call or a clock tick) happens.
Stepped ==
    /\ steps < limit
    /\ steps' = steps + 1
    /\ limit' = limit
    /\ modulus' = modulus
    /\ track' = track
    /\ snap' = IF track THEN tasks ELSE snap
    /\ prior' = IF track /\ last.op \notin {"init", "tick"}
                THEN [call |-> last, before |-> snap, at |-> time]
                ELSE prior

\* The host clock moves on between calls; it never goes back.
Tick ==
    /\ Stepped
    /\ time < MaxTime
    /\ time' = time + 1
    /\ last' = Call("tick", NoId, 0, Ok(TRUE))
    /\ UNCHANGED <<tasks, next_id, returned, deleted, swept>>

\* Mutant: only a call with both texts empty is rejected.
invalid_input_both(title, description) == is_empty(title) /\ is_empty(description)

\* create_task's validation: `title.is_empty() || description.is_empty()`
invalid_input(title, description) == is_empty(title) \/ is_empty(description)

\* Mutant: the counter is read but not advanced.
next_id_after_stuck(n) == n

\* The value create_task stores back into NEXT_ID: `id.set(next_id + 1)`
next_id_after(n) == n + 1

\* Mutant: updated_at left at zero instead of the creation time.
new_task_zero_updated(id, title, description, is_important, timestamp) ==
    Task(id, title, description, FALSE, unwrap_or(is_important, FALSE), timestamp, 0)

\* Mutant: the id field of the new record is left at zero.
new_task_unnumbered(id, title, description, is_important, timestamp) ==
    Task(0, title, description, FALSE, unwrap_or(is_important, FALSE), timestamp, timestamp)

\* The record create_task builds
new_task(id, title, description, is_important, timestamp) ==
    Task(id, title, description, FALSE, unwrap_or(is_important, FALSE), timestamp, timestamp)

\* What `next_id + 1` can do on the unsigned counter: while the sum fits there
\* is one outcome; when it does not, a build with overflow checks panics and a
\* build without them wraps around.
Overflows(n) == next_id_after(n) >= modulus
AddOutcomes(n) == IF Overflows(n) THEN {"panic", "wrap"} ELSE {"fits"}

\* The reply to a call that panicked: the canister traps and the changes the
\* call made are rolled back.
Trapped == Err("trap")

\* fn create_task(title, description, is_important) -> Result<u64, String>
\* With the wide counter a successful create is explored while
\* next_id < MaxCreates; with the narrow one the length of the run bounds it.
create_task(title, description, is_important) ==
    /\ Stepped
    /\ IF invalid_input(title, description)
       THEN /\ last' = Call("create_task", NoId, Supplied(is_important),
                              Err(TaskErrorToString("InvalidInput")))
            /\ UNCHANGED <<tasks, next_id, time, returned, deleted, swept>>
       ELSE /\ modulus = WideModulus => next_id < MaxCreates
            /\ \E outcome \in AddOutcomes(next_id) :
                  IF outcome = "panic"
                  THEN /\ last' = Call("create_task", NoId, Supplied(is_important),
                                         Trapped)
                       /\ UNCHANGED <<tasks, next_id, returned>>
                  ELSE LET id == next_id
                           timestamp == time
                           task == new_task(id, title, description, is_important,
                                            timestamp)
                       IN /\ next_id' = next_id_after(next_id) % modulus
                          /\ tasks' = insert(tasks, id, task)
                          /\ last' = Call("create_task", id, Supplied(is_important),
                                            Ok(id))
                          /\ returned' = Append(returned, id)
            /\ UNCHANGED <<time, deleted, swept>>

\* Mutant: updated_at is refreshed only when some field was supplied.
apply_update_touch_if_given(task, title, description, done, is_important, now) ==
    [task EXCEPT
        !.title = IF IsSome(title) THEN Unwrap(title) ELSE @,
        !.description = IF IsSome(description) THEN Unwrap(description) ELSE @,
        !.done = IF IsSome(done) THEN Unwrap(done) ELSE @,
        !.is_important = IF IsSome(is_important) THEN Unwrap(is_important) ELSE @,
        !.updated_at = IF IsSome(title) \/ IsSome(description) \/ IsSome(done) \/ IsSome(is_important) THEN now ELSE @]

\* Mutant: the supplied is_important is written to done as well.
apply_update_done_from_important(task, title, description, done, is_important, now) ==
    [task EXCEPT
        !.title = IF IsSome(title) THEN Unwrap(title) ELSE @,
        !.description = IF IsSome(description) THEN Unwrap(description) ELSE @,
        !.done = IF IsSome(is_important) THEN Unwrap(is_important)
                 ELSE IF IsSome(done) THEN Unwrap(done) ELSE @,
        !.is_important = IF IsSome(is_important) THEN Unwrap(is_important) ELSE @,
        !.updated_at = now]

\* Mutant: the call stamps created_at as well as updated_at.
apply_update_stamp_created(task, title, description, done, is_important, now) ==
    [task EXCEPT
        !.title = IF IsSome(title) THEN Unwrap(title) ELSE @,
        !.description = IF IsSome(description) THEN Unwrap(description) ELSE @,
        !.done = IF IsSome(done) THEN Unwrap(done) ELSE @,
        !.is_important = IF IsSome(is_important) THEN Unwrap(is_important) ELSE @,
        !.created_at = now,
        !.updated_at = now]

\* The body of update_task's `if let Some(task)` branch, applied to one record.
apply_update(task, title, description, done, is_important, now) ==
    [task EXCEPT
        !.title = IF IsSome(title) THEN Unwrap(title) ELSE @,
        !.description = IF IsSome(description) THEN Unwrap(description) ELSE @,
        !.done = IF IsSome(done) THEN Unwrap(done) ELSE @,
        !.is_important = IF IsSome(is_important) THEN Unwrap(is_important) ELSE @,
        !.updated_at = now]

\* Mutant: a missing id is reported as a success.
with_task_mut_lenient(op, id, given, changed) ==
    /\ Stepped
    /\ IF contains_key(tasks, id)
       THEN /\ tasks' = [tasks EXCEPT ![id] = changed]
            /\ last' = Call(op, id, given, Ok(TRUE))
       ELSE /\ tasks' = tasks
            /\ last' = Call(op, id, given, Ok(TRUE))
    /\ UNCHANGED <<next_id, time, returned, deleted, swept>>

\* The shape shared by the id-keyed update calls: with get_mut(&id) finding
\* the record, it becomes `changed` and the call returns Ok(true); otherwise
\* the call returns Err(NotFound).
with_task_mut(op, id, given, changed) ==
    /\ Stepped
    /\ IF contains_key(tasks, id)
       THEN /\ tasks' = [tasks EXCEPT ![id] = changed]
            /\ last' = Call(op, id, given, Ok(TRUE))
       ELSE /\ tasks' = tasks
            /\ last' = Call(op, id, given, Err(TaskErrorToString("NotFound")))
    /\ UNCHANGED <<next_id, time, returned, deleted, swept>>

\* fn update_task(id, title, description, done, is_important) -> Result<bool, String>
update_task(id, title, description, done, is_important) ==
    with_task_mut("update_task", id,
                  Supplied(title) + Supplied(description) + Supplied(done)
                     + Supplied(is_important),
                  apply_update(tasks[id], title, description, done, is_important, time))

\* fn delete_task(id) -> Result<bool, String>
delete_task(id) ==
    /\ Stepped
    /\ IF contains_key(tasks, id)
       THEN /\ tasks' = remove(tasks, id)
            /\ deleted' = deleted \cup {id}
            /\ last' = Call("delete_task", id, 0, Ok(TRUE))
       ELSE /\ UNCHANGED <<tasks, deleted>>
            /\ last' = Call("delete_task", id, 0, Err(TaskErrorToString("NotFound")))
    /\ UNCHANGED <<next_id, time, returned, swept>>

\* Mutant: updated_at is set back to the creation time.
mark_task_as_important_backdates(id) ==
    with_task_mut("mark_task_as_important", id, 0,
                  [tasks[id] EXCEPT !.is_important = TRUE,
                                    !.updated_at = tasks[id].created_at])

\* fn mark_task_as_important(id) -> Result<bool, String>
mark_task_as_important(id) ==
    with_task_mut("mark_task_as_important", id, 0,
                  [tasks[id] EXCEPT !.is_important = TRUE, !.updated_at = time])

\* Mutant: done is flipped instead of set.
mark_task_as_done_flips(id) ==
    with_task_mut("mark_task_as_done", id, 0,
                  [tasks[id] EXCEPT !.done = ~@, !.updated_at = time])

\* fn mark_task_as_done(id) -> Result<bool, String>
mark_task_as_done(id) ==
    with_task_mut("mark_task_as_done", id, 0,
                  [tasks[id] EXCEPT !.done = TRUE, !.updated_at = time])

\* fn reset_task_status(id) -> Result<bool, String>
reset_task_status(id) ==
    with_task_mut("reset_task_status", id, 0,
                  [tasks[id] EXCEPT !.done = FALSE, !.updated_at = time])

\* Mutant: the flag is flipped and updated_at is left alone.
toggle_task_importance_stale(id) ==
    with_task_mut("toggle_task_importance", id, 0,
                  [tasks[id] EXCEPT !.is_important = ~@])

\* Mutant: the flag is set, as in mark_task_as_important, instead of flipped.
toggle_task_importance_sets(id) ==
    with_task_mut("toggle_task_importance", id, 0,
                  [tasks[id] EXCEPT !.is_important = TRUE, !.updated_at = time])

\* fn toggle_task_importance(id) -> Result<bool, String>
toggle_task_importance(id) ==
    with_task_mut("toggle_task_importance", id, 0,
                  [tasks[id] EXCEPT !.is_important = ~@, !.updated_at = time])

\* Mutant: the retain predicate inverted.
keep_incomplete_inverted(task) == task.done

\* The predicate clear_completed_tasks hands to HashMap::retain.
keep_incomplete(task) == ~task.done

\* fn clear_completed_tasks()
clear_completed_tasks ==
    /\ Stepped
    /\ tasks' = [k \in {x \in DOMAIN tasks : keep_incomplete(tasks[x])} |-> tasks[k]]
    /\ swept' = swept \cup {k \in DOMAIN tasks : ~keep_incomplete(tasks[k])}
    /\ last' = Call("clear_completed_tasks", NoId, 0, Ok(TRUE))
    /\ UNCHANGED <<next_id, time, returned, deleted>>

\* A query call: it returns res and writes nothing.
query(op, id, res) ==
    /\ Stepped
    /\ last' = Call(op, id, 0, res)
    /\ UNCHANGED <<tasks, next_id, time, returned, deleted, swept>>

\* fn get_task(id) -> Result<Task, String>
get_task_result(id) ==
    IF contains_key(tasks, id) THEN Ok(tasks[id]) ELSE Err(TaskErrorToString("NotFound"))

\* Mutant: reading a record refreshes its updated_at.
get_task_touching(id) ==
    /\ Stepped
    /\ last' = Call("get_task", id, 0, get_task_result(id))
    /\ tasks' = IF contains_key(tasks, id)
                THEN [tasks EXCEPT ![id].updated_at = time]
                ELSE tasks
    /\ UNCHANGED <<next_id, time, returned, deleted, swept>>

get_task(id) == query("get_task", id, get_task_result(id))

\* fn get_all_tasks() -> Vec<Task>
get_all_tasks_result == values(tasks)

get_all_tasks == query("get_all_tasks", NoId, Ok(get_all_tasks_result))

\* Mutant: the number of ids handed out is returned instead of the map's size.
get_total_number_of_tasks_result_handed_out == next_id

\* fn get_total_number_of_tasks() -> u64
get_total_number_of_tasks_result == Cardinality(DOMAIN tasks)

get_total_number_of_tasks ==
    query("get_total_number_of_tasks", NoId, Ok(get_total_number_of_tasks_result))

\* `.values().filter(..).cloned().collect()`: the records stored under the
\* given keys as a Vec<Task>, kept here as a bag (record to number of
\* occurrences), since HashMap iteration order is unspecified.
collect(keys) ==
    [r \in {tasks[k] : k \in keys} |-> Cardinality({k \in keys : tasks[k] = r})]

\* u64 timestamp arguments
Times == 0..MaxTime

\* A call of a filtered query: it returns res and writes nothing.
ask(op, arg, res) ==
    /\ Stepped
    /\ last' = Asked(op, arg, res)
    /\ UNCHANGED <<tasks, next_id, time, returned, deleted, swept>>

\* fn search_task_by_status(done) -> Vec<Task>
search_task_by_status_result(done) ==
    collect({k \in DOMAIN tasks : tasks[k].done = done})

search_task_by_status(done) ==
    ask("search_task_by_status", Some(done), Ok(search_task_by_status_result(done)))

\* Mutant: the filter is dropped, every stored record is returned.
get_important_tasks_result_all == collect(DOMAIN tasks)

\* fn get_important_tasks() -> Vec<Task>
get_important_tasks_result == collect({k \in DOMAIN tasks : tasks[k].is_important})

get_important_tasks == ask("get_important_tasks", None, Ok(get_important_tasks_result))

\* fn get_completed_tasks() -> Vec<Task>
get_completed_tasks_result == collect({k \in DOMAIN tasks : tasks[k].done})

get_completed_tasks == ask("get_completed_tasks", None, Ok(get_completed_tasks_result))

\* fn get_incomplete_tasks() -> Vec<Task>
get_incomplete_tasks_result == collect({k \in DOMAIN tasks : ~tasks[k].done})

get_incomplete_tasks == ask("get_incomplete_tasks", None, Ok(get_incomplete_tasks_result))

\* fn get_tasks_by_description(description) -> Vec<Task>
get_tasks_by_description_result(description) ==
    collect({k \in DOMAIN tasks : tasks[k].description = description})

get_tasks_by_description(description) ==
    ask("get_tasks_by_description", Some(description),
        Ok(get_tasks_by_description_result(description)))

\* fn get_tasks_by_importance_status(is_important) -> Vec<Task>
get_tasks_by_importance_status_result(is_important) ==
    collect({k \in DOMAIN tasks : tasks[k].is_important = is_important})

get_tasks_by_importance_status(is_important) ==
    ask("get_tasks_by_importance_status", Some(is_important),
        Ok(get_tasks_by_importance_status_result(is_important)))

\* fn get_tasks_by_title(title) -> Vec<Task>
get_tasks_by_title_result(title) ==
    collect({k \in DOMAIN tasks : tasks[k].title = title})

get_tasks_by_title(title) ==
    ask("get_tasks_by_title", Some(title), Ok(get_tasks_by_title_result(title)))

\* Mutant: a record created at the given timestamp is returned too.
get_tasks_created_after_result_inclusive(timestamp) ==
    collect({k \in DOMAIN tasks : tasks[k].created_at >= timestamp})

\* fn get_tasks_created_after(timestamp) -> Vec<Task>
get_tasks_created_after_result(timestamp) ==
    collect({k \in DOMAIN tasks : tasks[k].created_at > timestamp})

get_tasks_created_after(timestamp) ==
    ask("get_tasks_created_after", Some(timestamp),
        Ok(get_tasks_created_after_result(timestamp)))

\* fn get_tasks_updated_after(timestamp) -> Vec<Task>
get_tasks_updated_after_result(timestamp) ==
    collect({k \in DOMAIN tasks : tasks[k].updated_at > timestamp})

get_tasks_updated_after(timestamp) ==
    ask("get_tasks_updated_after", Some(timestamp),
        Ok(get_tasks_updated_after_result(timestamp)))

Next ==
    \/ Tick
    \/ \E title \in Strings, description \in Strings, is_important \in OptBool :
          create_task(title, description, is_important)
    \/ \E id \in Ids, title \in OptString, description \in OptString,
          done \in OptBool, is_important \in OptBool :
          update_task(id, title, description, done, is_important)
    \/ \E id \in Ids : delete_task(id)
    \/ \E id \in Ids : mark_task_as_important(id)
    \/ \E id \in Ids : mark_task_as_done(id)
    \/ \E id \in Ids : reset_task_status(id)
    \/ \E id \in Ids : toggle_task_importance(id)
    \/ clear_completed_tasks
    \/ \E id \in Ids : get_task(id)
    \/ get_all_tasks
    \/ get_total_number_of_tasks
    \/ \E done \in BOOLEAN : search_task_by_status(done)
    \/ \E is_important \in BOOLEAN : get_tasks_by_importance_status(is_important)
    \/ get_important_tasks
    \/ get_completed_tasks
    \/ get_incomplete_tasks
    \/ \E title \in Strings : get_tasks_by_title(title)
    \/ \E description \in Strings : get_tasks_by_description(description)
    \/ \E timestamp \in Times : get_tasks_created_after(timestamp)
    \/ \E timestamp \in Times : get_tasks_updated_after(timestamp)

Spec == Init /\ [][Next]_vars

\* The same system, explored over shorter runs.
InitShort == Start(MaxShortSteps)

SpecShort == InitShort /\ [][Next]_vars

\* The calls that create, flag and remove records, with the history of the
\* previous call kept: the runs in which a flag is set, reset or toggled twice.
InitPair == StartWith(MaxPairSteps, TRUE)

NextPair ==
    \/ Tick
    \/ \E title \in Strings, description \in Strings, is_important \in OptBool :
          create_task(title, description, is_important)
    \/ \E id \in Ids : delete_task(id)
    \/ \E id \in Ids : mark_task_as_important(id)
    \/ \E id \in Ids : mark_task_as_done(id)
    \/ \E id \in Ids : reset_task_status(id)
    \/ \E id \in Ids : toggle_task_importance(id)
    \/ clear_completed_tasks

SpecPair == InitPair /\ [][NextPair]_vars

\* The same system with a counter of IdBits bits, which the runs overflow.
InitWrap == StartAt(MaxWrapSteps, FALSE, NarrowModulus)

SpecWrap == InitWrap /\ [][Next]_vars

\* One client making a fixed sequence of calls against the empty store, the
\* clock moving on at any point between them.
ScenarioCalls ==
    <<"create_task", "create_task", "mark_task_as_done", "get_completed_tasks",
      "get_important_tasks", "delete_task", "get_task", "get_total_number_of_tasks">>

\* The number of calls of the scenario made so far: every step but a tick.
CallsMade == steps - time

InitScenario == Start(Len(ScenarioCalls) + MaxTime)

ScenarioCall ==
    \/ CallsMade = 0 /\ create_task("Buy milk", "2%", None)
    \/ CallsMade = 1 /\ create_task("Pay rent", "rent", Some(TRUE))
    \/ CallsMade = 2 /\ mark_task_as_done(0)
    \/ CallsMade = 3 /\ get_completed_tasks
    \/ CallsMade = 4 /\ get_important_tasks
    \/ CallsMade = 5 /\ delete_task(0)
    \/ CallsMade = 6 /\ get_task(0)
    \/ CallsMade = 7 /\ get_total_number_of_tasks

NextScenario == Tick \/ ScenarioCall

SpecScenario == InitScenario /\ [][NextScenario]_vars

\* ---- names used by the properties ----
removed == deleted \cup swept

IdKeyedOps == {"get_task", "update_task", "delete_task", "mark_task_as_done",
               "reset_task_status", "mark_task_as_important", "toggle_task_importance"}

IsOkTrue(res) == res.ok /\ res.val = TRUE
IsErr(res, message) == ~res.ok /\ res.val = message

\* C1: the k-th successful create_task returns id k-1: the ids returned so far
\* are 0, 1, 2, ... in order, whatever was deleted or swept in between.
C1_CreateReturnsSequentialIds ==
    /\ \A k \in 1..Len(returned) : returned[k] = k - 1
    /\ (last.op = "create_task" /\ last.res.ok) => last.res.val = Len(returned) - 1

\* A second create succeeded after the first record was removed.
C1_Witness ==
    /\ last.op = "create_task" /\ last.res.ok
    /\ Len(returned) = 2
    /\ 0 \in removed
    /\ DOMAIN tasks = {1}

\* C2: create_task with an empty title or an empty description returns the
\* InvalidInput error and leaves the task mapping and the next-id counter
\* unchanged; a successful create returns the counter's value before the call.
C2_CreateRejectsEmptyText ==
    [][(steps' # steps /\ last'.op = "create_task") =>
          \A title \in Strings, description \in Strings, is_important \in OptBool :
             create_task(title, description, is_important) =>
                IF title = "" \/ description = ""
                THEN /\ IsErr(last'.res, "Invalid input")
                     /\ tasks' = tasks
                     /\ next_id' = next_id
                ELSE /\ last'.res.ok
                     /\ last'.res.val = next_id]_vars

\* A create was rejected while the store held a record.
C2_Witness ==
    /\ last.op = "create_task" /\ ~last.res.ok
    /\ next_id = 1
    /\ DOMAIN tasks = {0}

\* C3: every stored record has a non-empty title and a non-empty description.
C3_TextNonEmpty ==
    \A k \in DOMAIN tasks : tasks[k].title # "" /\ tasks[k].description # ""

\* C4: every stored record has updated_at >= created_at, and the record a
\* create_task has just stored has updated_at = created_at.
C4_UpdatedNotBeforeCreated ==
    /\ \A k \in DOMAIN tasks : tasks[k].updated_at >= tasks[k].created_at
    /\ (last.op = "create_task" /\ last.res.ok) =>
          tasks[last.id].updated_at = tasks[last.id].created_at

\* A record was changed after the clock moved on from its creation.
C4_Witness ==
    /\ last.op \in IdKeyedOps \ {"get_task", "delete_task"}
    /\ last.res.ok
    /\ tasks[last.id].updated_at > tasks[last.id].created_at

\* C5: an id-keyed call on an id that is no key of the task mapping returns
\* the NotFound error and leaves the task mapping and the next-id counter as
\* they were.
C5_AbsentIdNotFound ==
    [][(steps' # steps /\ last'.op \in IdKeyedOps /\ last'.id \notin DOMAIN tasks) =>
          /\ IsErr(last'.res, "Task not found")
          /\ tasks' = tasks
          /\ next_id' = next_id]_vars

\* An update was tried on the id of a record that had been removed, with
\* another record in the store.
C5_Witness ==
    /\ last.op = "update_task" /\ ~last.res.ok
    /\ last.id \in removed
    /\ tasks # EmptyMap

\* C6: delete_task on a present id returns true and removes exactly that
\* record, leaving every other record and the next-id counter unchanged;
\* from then on the id is no key of the mapping, every id-keyed call on it
\* fails with NotFound, and no create_task is assigned it.
C6_DeleteStep ==
    (steps' # steps /\ last'.op = "delete_task" /\ last'.id \in DOMAIN tasks) =>
        /\ IsOkTrue(last'.res)
        /\ DOMAIN tasks' = DOMAIN tasks \ {last'.id}
        /\ \A k \in DOMAIN tasks' : tasks'[k] = tasks[k]
        /\ next_id' = next_id

C6_AfterDelete ==
    /\ (steps' # steps /\ last'.op \in IdKeyedOps /\ last'.id \in deleted) =>
          IsErr(last'.res, "Task not found")
    /\ (steps' # steps /\ last'.op = "create_task" /\ last'.res.ok) =>
          last'.res.val \notin deleted

C6_DeleteIsPermanent ==
    /\ [](\A id \in deleted : ~contains_key(tasks, id) /\ ~get_task_result(id).ok)
    /\ [][C6_DeleteStep /\ C6_AfterDelete]_vars

\* Record 0 was deleted, a later create was given id 1, and get_task(0) then failed.
C6_Witness ==
    /\ last.op = "get_task" /\ last.id = 0 /\ ~last.res.ok
    /\ deleted = {0}
    /\ returned = <<0, 1>>
    /\ DOMAIN tasks = {1}

\* C7: update_task on a present id with all four optional fields omitted
\* returns true, leaves title, description, done and is_important of that
\* record unchanged, and sets updated_at to the current time, which is >= the
\* record's previous updated_at.
C7_UpdateWithNothingTouches ==
    [][(steps' # steps /\ last'.op = "update_task" /\ last'.given = 0
           /\ last'.id \in DOMAIN tasks) =>
          LET old == tasks[last'.id]
              new == tasks'[last'.id]
          IN /\ IsOkTrue(last'.res)
             /\ new.title = old.title
             /\ new.description = old.description
             /\ new.done = old.done
             /\ new.is_important = old.is_important
             /\ new.updated_at = time
             /\ new.updated_at >= old.updated_at]_vars

\* An update with nothing supplied moved updated_at past the creation time.
C7_Witness ==
    /\ last.op = "update_task" /\ last.given = 0 /\ last.res.ok
    /\ tasks[last.id].updated_at > tasks[last.id].created_at

\* The value a field has after an update that was given the option `supplied`.
C8_Expected(supplied, previous) == IF supplied = None THEN previous ELSE supplied[1]

\* C8: a successful update_task sets each supplied field of record id to the
\* supplied value, leaves each omitted field at its previous value, sets the
\* record's updated_at to the current time, and leaves every other record,
\* the set of stored ids and the next-id counter unchanged.
C8_UpdateAppliesSuppliedFields ==
    [][(steps' # steps /\ last'.op = "update_task" /\ last'.res.ok) =>
          \A title \in OptString, description \in OptString,
             done \in OptBool, is_important \in OptBool :
             ( /\ Supplied(title) + Supplied(description) + Supplied(done)
                     + Supplied(is_important) = last'.given
               /\ update_task(last'.id, title, description, done, is_important) ) =>
                LET old == tasks[last'.id]
                    new == tasks'[last'.id]
                IN /\ new.title = C8_Expected(title, old.title)
                   /\ new.description = C8_Expected(description, old.description)
                   /\ new.done = C8_Expected(done, old.done)
                   /\ new.is_important = C8_Expected(is_important, old.is_important)
                   /\ new.updated_at = time
                   /\ DOMAIN tasks' = DOMAIN tasks
                   /\ \A k \in DOMAIN tasks \ {last'.id} : tasks'[k] = tasks[k]
                   /\ next_id' = next_id]_vars

\* An update that supplied some fields and omitted others changed record 0
\* while record 1 was in the store.
C8_Witness ==
    /\ last.op = "update_task" /\ last.res.ok /\ last.id = 0
    /\ last.given \in 1..3
    /\ DOMAIN tasks = {0, 1}
    /\ tasks[0].done /\ tasks[0].title = ""

\* C9: while a record stays in the store its id and created_at keep the
\* values create_task gave them (the returned id, the time of the call).
C9_IdAndCreatedAtFixed ==
    [][/\ \A k \in DOMAIN tasks \cap DOMAIN tasks' :
             /\ tasks'[k].id = tasks[k].id
             /\ tasks'[k].created_at = tasks[k].created_at
       /\ (steps' # steps /\ last'.op = "create_task" /\ last'.res.ok) =>
             /\ tasks'[last'.res.val].id = last'.res.val
             /\ tasks'[last'.res.val].created_at = time]_vars

\* Record 0 was updated after the clock moved on, with a later record beside it.
C9_Witness ==
    /\ last.op = "update_task" /\ last.res.ok /\ last.id = 0
    /\ DOMAIN tasks = {0, 1}
    /\ tasks[0].created_at < time
    /\ tasks[0].updated_at = time

\* C10: after clear_completed_tasks the store holds no record with done =
\* true; every record that had done = false is still there, unchanged; the
\* next-id counter is unchanged; with no record done nothing changes.
C10_ClearRemovesOnlyCompleted ==
    [][(steps' # steps /\ last'.op = "clear_completed_tasks") =>
          /\ \A k \in DOMAIN tasks' : ~tasks'[k].done
          /\ DOMAIN tasks' = {k \in DOMAIN tasks : ~tasks[k].done}
          /\ \A k \in DOMAIN tasks' : tasks'[k] = tasks[k]
          /\ next_id' = next_id
          /\ ((\A k \in DOMAIN tasks : ~tasks[k].done) => tasks' = tasks)]_vars

\* A sweep removed a completed record and kept an incomplete one.
C10_Witness ==
    /\ last.op = "clear_completed_tasks"
    /\ swept # {}
    /\ tasks # EmptyMap

MarkOps == {"mark_task_as_done", "reset_task_status", "mark_task_as_important",
            "toggle_task_importance"}

\* C12: on a present id, mark_task_as_done sets done = true, reset_task_status
\* sets done = false, mark_task_as_important sets is_important = true and
\* toggle_task_importance negates is_important; each returns true, sets the
\* record's updated_at to the current time and changes nothing else.
C12_MarkOpsSetOneField ==
    [][(steps' # steps /\ last'.op \in MarkOps /\ last'.id \in DOMAIN tasks) =>
          LET id == last'.id
              old == tasks[id]
              new == tasks'[id]
          IN /\ IsOkTrue(last'.res)
             /\ id \in DOMAIN tasks'
             /\ new.done = CASE last'.op = "mark_task_as_done" -> TRUE
                             [] last'.op = "reset_task_status" -> FALSE
                             [] OTHER -> old.done
             /\ new.is_important = CASE last'.op = "mark_task_as_important" -> TRUE
                                     [] last'.op = "toggle_task_importance" -> ~old.is_important
                                     [] OTHER -> old.is_important
             /\ new.updated_at = time
             /\ new.id = old.id
             /\ new.title = old.title
             /\ new.description = old.description
             /\ new.created_at = old.created_at
             /\ DOMAIN tasks' = DOMAIN tasks
             /\ \A k \in DOMAIN tasks \ {id} : tasks'[k] = tasks[k]
             /\ next_id' = next_id]_vars

\* An important record was toggled after the clock moved on, with another
\* record in the store.
C12_Witness ==
    /\ last.op = "toggle_task_importance" /\ last.res.ok
    /\ DOMAIN tasks = {0, 1}
    /\ ~tasks[last.id].is_important
    /\ tasks[last.id].updated_at > tasks[last.id].created_at

\* The previous call and this one are the same flag operation on the same
\* stored record, with nothing but clock ticks between them.
TwiceInARow(op) ==
    /\ last.op = op /\ last.res.ok
    /\ prior.call.op = op /\ prior.call.res.ok
    /\ prior.call.id = last.id

\* C11: toggle_task_importance called twice on the same stored id, with no
\* other call in between, brings is_important back to the value it had before
\* the first call, having flipped it in between, and each of the two calls
\* sets updated_at to the time of that call, so that it never goes back.
C11_ToggleTwiceRestores ==
    TwiceInARow("toggle_task_importance") =>
        LET original == prior.before[last.id]
            between  == snap[last.id]
            final    == tasks[last.id]
        IN  /\ final.is_important = original.is_important
            /\ between.is_important # original.is_important
            /\ between.updated_at = prior.at
            /\ final.updated_at = time
            /\ original.updated_at <= between.updated_at
            /\ between.updated_at <= final.updated_at

\* A record was toggled, the clock moved on, and it was toggled again.
C11_Witness ==
    /\ TwiceInARow("toggle_task_importance")
    /\ prior.before[last.id].updated_at < snap[last.id].updated_at
    /\ snap[last.id].updated_at < tasks[last.id].updated_at

SetOps == {"mark_task_as_done", "reset_task_status", "mark_task_as_important"}

\* What one call of a setting operation, made at time now, makes of a record.
SetOnce(op, task, now) ==
    CASE op = "mark_task_as_done"      -> [task EXCEPT !.done = TRUE, !.updated_at = now]
      [] op = "reset_task_status"      -> [task EXCEPT !.done = FALSE, !.updated_at = now]
      [] op = "mark_task_as_important" -> [task EXCEPT !.is_important = TRUE,
                                                       !.updated_at = now]

\* C13, as stated: mark_task_as_done, reset_task_status and
\* mark_task_as_important called twice in a row on the same stored id leave
\* the store exactly as the first call left it, and toggle_task_importance
\* flips is_important on every call.
C13_SecondCallChangesNothing ==
    /\ \A op \in SetOps : TwiceInARow(op) => tasks = snap
    /\ TwiceInARow("toggle_task_importance") =>
           tasks[last.id].is_important # snap[last.id].is_important

\* C13, amended: the second of two such calls in a row changes nothing but the
\* record's updated_at, which becomes the time of the second call, so that the
\* store is the one a single call made at that time would have left; and
\* toggle_task_importance flips is_important on every call.
C13_SecondCallOnlyRefreshes ==
    /\ \A op \in SetOps :
          TwiceInARow(op) =>
             /\ tasks = [snap EXCEPT ![last.id].updated_at = time]
             /\ tasks = [prior.before EXCEPT
                            ![last.id] = SetOnce(op, prior.before[last.id], time)]
    /\ TwiceInARow("toggle_task_importance") =>
           tasks[last.id].is_important # snap[last.id].is_important

\* A record that was not done was marked done, the clock moved on, and it was
\* marked done again, with another record in the store.
C13_Witness ==
    /\ TwiceInARow("mark_task_as_done")
    /\ ~prior.before[last.id].done
    /\ snap[last.id].updated_at < time
    /\ Cardinality(DOMAIN tasks) = 2

\* C14: the set of stored ids changes only by a successful create_task, which
\* adds exactly the one new id, by a successful delete_task, which removes
\* exactly the given id, and by clear_completed_tasks, which removes exactly the
\* ids of the done records; every other call, failed ones included, and the
\* clock leave it unchanged. The size of the mapping, which is what
\* get_total_number_of_tasks returns, therefore always equals the number of
\* successful creates minus the number of records removed by delete_task and
\* clear_completed_tasks.
C14_KeysChangeOnlyByCreateDeleteClear ==
    /\ [](/\ Cardinality(DOMAIN tasks) = Len(returned) - Cardinality(removed)
          /\ last.op = "get_total_number_of_tasks" =>
                last.res = Ok(Len(returned) - Cardinality(removed)))
    /\ [][CASE last'.op = "create_task" /\ last'.res.ok ->
                  /\ last'.res.val \notin DOMAIN tasks
                  /\ DOMAIN tasks' = DOMAIN tasks \cup {last'.res.val}
                  /\ Len(returned') = Len(returned) + 1
                  /\ removed' = removed
            [] last'.op = "delete_task" /\ last'.res.ok ->
                  /\ last'.id \in DOMAIN tasks
                  /\ DOMAIN tasks' = DOMAIN tasks \ {last'.id}
                  /\ returned' = returned
                  /\ removed' = removed \cup {last'.id}
            [] last'.op = "clear_completed_tasks" ->
                  /\ DOMAIN tasks' = {k \in DOMAIN tasks : ~tasks[k].done}
                  /\ returned' = returned
                  /\ removed' = removed \cup {k \in DOMAIN tasks : tasks[k].done}
            [] OTHER ->
                  /\ DOMAIN tasks' = DOMAIN tasks
                  /\ returned' = returned
                  /\ removed' = removed]_vars

\* Two records were created, one was removed, and the count was asked for.
C14_Witness ==
    /\ last.op = "get_total_number_of_tasks"
    /\ Len(returned) = 2
    /\ Cardinality(removed) = 1
    /\ last.res.val = 1

FilteredOps ==
    {"search_task_by_status", "get_tasks_by_importance_status", "get_important_tasks",
     "get_completed_tasks", "get_incomplete_tasks", "get_tasks_by_title",
     "get_tasks_by_description", "get_tasks_created_after", "get_tasks_updated_after"}

QueryOps == FilteredOps \cup {"get_task", "get_all_tasks", "get_total_number_of_tasks"}

\* C15: every query operation leaves the task mapping, and with it every
\* record's updated_at, and the next-id counter unchanged; and a filtered query
\* never returns an error: an empty result is returned as a normal result.
C15_QueriesWriteNothing ==
    [][last'.op \in QueryOps =>
          /\ tasks' = tasks
          /\ next_id' = next_id
          /\ last'.op \in FilteredOps => last'.res.ok]_vars

\* A record stored at an earlier time was read by get_task, and nothing in the
\* store matches the empty title.
C15_Witness ==
    /\ last.op = "get_task" /\ last.res.ok
    /\ last.res.val.updated_at < time
    /\ DOMAIN get_tasks_by_title_result("") = {}

\* The predicate a filtered query applies to a stored record.
Matches(op, arg, task) ==
    CASE op = "search_task_by_status"          -> task.done = Unwrap(arg)
      [] op = "get_tasks_by_importance_status" -> task.is_important = Unwrap(arg)
      [] op = "get_important_tasks"            -> task.is_important = TRUE
      [] op = "get_completed_tasks"            -> task.done = TRUE
      [] op = "get_incomplete_tasks"           -> task.done = FALSE
      [] op = "get_tasks_by_title"             -> task.title = Unwrap(arg)
      [] op = "get_tasks_by_description"       -> task.description = Unwrap(arg)
      [] op = "get_tasks_created_after"        -> task.created_at > Unwrap(arg)
      [] op = "get_tasks_updated_after"        -> task.updated_at > Unwrap(arg)

\* C16: each filtered query returns exactly the stored records that satisfy
\* its predicate, each once: done = d, is_important = i, done = true / false,
\* is_important = true, title / description equal to the argument, created_at
\* / updated_at greater than t (a record whose timestamp equals t is left
\* out); and in every state the results of get_completed_tasks and
\* get_incomplete_tasks are disjoint and together are get_all_tasks.
C16_FilteredQueriesReturnMatches ==
    /\ last.op \in FilteredOps =>
          /\ last.res.ok
          /\ DOMAIN last.res.val =
                {task \in values(tasks) : Matches(last.op, last.arg, task)}
          /\ \A task \in DOMAIN last.res.val : last.res.val[task] = 1
    /\ DOMAIN get_completed_tasks_result \cap DOMAIN get_incomplete_tasks_result = {}
    /\ DOMAIN get_completed_tasks_result \cup DOMAIN get_incomplete_tasks_result
          = get_all_tasks_result
    /\ Cardinality(DOMAIN get_completed_tasks_result)
          + Cardinality(DOMAIN get_incomplete_tasks_result)
          = Cardinality(DOMAIN tasks)

\* get_tasks_created_after(t) was asked with one record created at t, which it
\* left out, and one created later, which it returned.
C16_Witness ==
    /\ last.op = "get_tasks_created_after"
    /\ \E task \in values(tasks) : task.created_at = Unwrap(last.arg)
    /\ \E task \in values(tasks) :
          task.created_at > Unwrap(last.arg) /\ task \in DOMAIN last.res.val
    /\ Cardinality(DOMAIN last.res.val) = 1

\* The bag holding the one record task, once.
Exactly(task) == [r \in {task} |-> 1]

\* C17: from the empty store, create_task("Buy milk","2%",None),
\* create_task("Pay rent","rent",Some(true)), mark_task_as_done(0),
\* get_completed_tasks(), get_important_tasks(), delete_task(0), get_task(0),
\* get_total_number_of_tasks() return, in this order: id 0, id 1, true, exactly
\* task 0, exactly task 1, true, the NotFound error, 1.
C17_ScenarioResults ==
    last.op \notin {"init", "tick"} =>
        /\ last.op = ScenarioCalls[CallsMade]
        /\ CASE CallsMade = 1 -> last.res = Ok(0)
             [] CallsMade = 2 -> last.res = Ok(1)
             [] CallsMade = 3 -> last.res = Ok(TRUE)
             [] CallsMade = 4 ->
                   /\ last.res = Ok(Exactly(tasks[0]))
                   /\ tasks[0].id = 0 /\ tasks[0].title = "Buy milk" /\ tasks[0].done
             [] CallsMade = 5 ->
                   /\ last.res = Ok(Exactly(tasks[1]))
                   /\ tasks[1].id = 1 /\ tasks[1].title = "Pay rent"
                   /\ tasks[1].is_important
             [] CallsMade = 6 -> last.res = Ok(TRUE)
             [] CallsMade = 7 -> last.res = Err(TaskErrorToString("NotFound"))
             [] CallsMade = 8 -> last.res = Ok(1)

\* The whole scenario was run, the clock having moved on during it.
C17_Witness ==
    /\ CallsMade = Len(ScenarioCalls)
    /\ last.op = "get_total_number_of_tasks"
    /\ DOMAIN tasks = {1}
    /\ tasks[1].created_at > 0

\* C19: a successful create_task never overwrites or alters an existing
\* record: the id it inserts under is not a key of the task mapping just before
\* the insert, and every record stored before is stored unchanged after, also
\* in runs where the counter has reached its largest value and next_id + 1
\* overflows.
C19_CreateNeverOverwrites ==
    [][(last'.op = "create_task" /\ last'.res.ok) =>
          /\ last'.res.val \notin DOMAIN tasks
          /\ \A k \in DOMAIN tasks : k \in DOMAIN tasks' /\ tasks'[k] = tasks[k]]_vars

\* C18: every record is stored under the key equal to its id field, every key
\* is smaller than the next-id counter, and the counter is changed by a
\* successful create_task only, which adds exactly one to it.
C18_KeysAreIdsBelowCounter ==
    /\ [](\A k \in DOMAIN tasks : tasks[k].id = k /\ k < next_id)
    /\ [][/\ next_id' # next_id => last'.op = "create_task" /\ last'.res.ok
          /\ (steps' # steps /\ last'.op = "create_task" /\ last'.res.ok) =>
                next_id' = next_id + 1]_vars

\* Two records are stored and one of them has just been updated.
C18_Witness ==
    /\ last.op = "update_task" /\ last.res.ok
    /\ DOMAIN tasks = {0, 1}
    /\ next_id = 2

\* C20: the clock never going back, a stored record's updated_at never
\* decreases from one state to the next, and of two stored records the one
\* with the smaller id was not created later than the other.
C20_TimestampsFollowHistory ==
    /\ [](\A i, j \in DOMAIN tasks :
            i < j => tasks[i].created_at <= tasks[j].created_at)
    /\ [][/\ time' >= time
          /\ \A k \in DOMAIN tasks \cap DOMAIN tasks' :
                tasks'[k].updated_at >= tasks[k].updated_at]_vars

\* The second record was created later than the first, and the first has been
\* changed since the second was created.
C20_Witness ==
    /\ DOMAIN tasks = {0, 1}
    /\ tasks[0].created_at < tasks[1].created_at
    /\ tasks[0].updated_at >= tasks[1].created_at
    /\ last.op \in IdKeyedOps /\ last.res.ok /\ last.id = 0
====
